---------------------------- MODULE Spec2Model ----------------------------
(***************************************************************************)
(* Transcript acquisition of YT_Summarizer (src/main.py): the cache-first  *)
(* orchestration in main(), the language-fallback / retry loop of          *)
(* get_video_transcript() and the SQLite-backed transcript table.          *)
(*                                                                         *)
(* Python strings are modelled as sequences of one-character strings, so   *)
(* "" is << >> and None is a value different from every string.            *)
(***************************************************************************)
EXTENDS Integers, Sequences, FiniteSets, TLC

VARIABLES store, clock, pc, args, video_id, video_transcript,
          transcription_language, language, n_try, outcome, trace, store0,
          prev, calls_left, faults_left

vars == <<store, clock, pc, args, video_id, video_transcript,
          transcription_language, language, n_try, outcome, trace, store0,
          prev, calls_left, faults_left>>

-----------------------------------------------------------------------------
(* Bounds of the model. *)

\* Number of invocations of main() in a behaviour of Spec.
MaxCalls == 3

\* Number of provider calls that fail in a behaviour of Spec (SpecRetry lets
\* every provider call fail).
MaxFaults == 1

-----------------------------------------------------------------------------
(* Program constants. *)

max_retries == 7

base_delay == 2

\* The language codes, as strings.
En == <<"e", "n">>

Fa == <<"f", "a">>

languages == <<En, Fa>>

\* Python's None: a one-element sequence holding a token that is no character,
\* so it differs from every string, "" included.
None == <<"None">>

\* Truthiness of an optional string, as `if video_transcript:` evaluates it:
\* None and "" are both falsy.
Truthy(x) == x # None /\ x # << >>

-----------------------------------------------------------------------------
(* Strings. *)

Digit == <<"0", "1", "2", "3", "4", "5", "6", "7", "8", "9">>

\* The characters the class [\w-] accepts (ASCII part).
IdChars ==
    { Digit[i] : i \in 1..10 } \cup {"_", "-"} \cup
    {"a","b","c","d","e","f","g","h","i","j","k","l","m",
     "n","o","p","q","r","s","t","u","v","w","x","y","z"} \cup
    {"A","B","C","D","E","F","G","H","I","J","K","L","M",
     "N","O","P","Q","R","S","T","U","V","W","X","Y","Z"}

\* MatchStarts for the looser pattern .=([\w-]+): any parameter name.
MatchStarts_any_name(url) ==
    { i \in 1..Len(url) :
        /\ i + 2 <= Len(url)
        /\ url[i + 1] = "="
        /\ url[i + 2] \in IdChars }

\* Positions at which the pattern v=([\w-]+) matches in url.
MatchStarts(url) ==
    { i \in 1..Len(url) :
        /\ i + 2 <= Len(url)
        /\ url[i] = "v"
        /\ url[i + 1] = "="
        /\ url[i + 2] \in IdChars }

\* End of the maximal run of [\w-] characters that starts at position j.
RECURSIVE RunEnd(_, _)
RunEnd(url, j) ==
    IF j + 1 <= Len(url) /\ url[j + 1] \in IdChars
    THEN RunEnd(url, j + 1)
    ELSE j

Min(S) == CHOOSE x \in S : \A y \in S : x <= y

\* re.search(r"v=([\w-]+)", url) finds a match.
HasVideoId(url) == MatchStarts(url) # {}

\* extract_video_id: group 1 of the leftmost match (greedy); raises
\* ValueError when HasVideoId is false.
extract_video_id(url) ==
    LET i == Min(MatchStarts(url))
    IN  SubSeq(url, i + 2, RunEnd(url, i + 2))

\* Decimal digits of a natural number, without padding.
RECURSIVE Digits(_)
Digits(n) ==
    IF n < 10 THEN <<Digit[n + 1]>>
    ELSE Digits(n \div 10) \o <<Digit[(n % 10) + 1]>>

\* A number formatted without a width.
Pad2_unpadded(n) == Digits(n)

\* The format specifier :02 : at least two digits, zero-padded.
Pad2(n) == IF n < 10 THEN <<"0">> \o Digits(n) ELSE Digits(n)

\* convert_seconds_to_timestamp for a whole number of seconds.
convert_seconds_to_timestamp(seconds) ==
    LET hours   == seconds \div 3600
        minutes == (seconds % 3600) \div 60
        secs    == seconds % 60
    IN  Pad2(hours) \o <<":">> \o Pad2(minutes) \o <<":">> \o Pad2(secs)

\* One rendered line: f"[{timestamp}]{text}".
Line(entry) ==
    <<"[">> \o convert_seconds_to_timestamp(entry.start) \o <<"]">> \o entry.text

\* "\n".join(lines)
RECURSIVE Join(_)
Join(lines) ==
    IF lines = << >> THEN << >>
    ELSE IF Len(lines) = 1 THEN lines[1]
    ELSE lines[1] \o <<"\n">> \o Join(Tail(lines))

\* The entries rendered in the order of their start offsets.
Render_sorted_by_start(fetched_transcript) ==
    LET n == Len(fetched_transcript)
        order == CHOOSE f \in [1..n -> 1..n] :
                    /\ \A i, j \in 1..n : i # j => f[i] # f[j]
                    /\ \A i, j \in 1..n :
                         i < j => fetched_transcript[f[i]].start
                                    <= fetched_transcript[f[j]].start
    IN  Join([i \in 1..n |-> Line(fetched_transcript[order[i]])])

\* The transcript text built from the provider's raw entries.
Render(fetched_transcript) ==
    Join([i \in 1..Len(fetched_transcript) |-> Line(fetched_transcript[i])])


-----------------------------------------------------------------------------
(* The environment: command lines, the captioning provider, the database.  *)

\* The operating-system processes that run main() against the one database.
Procs == {"p1", "p2"}

\* The process of the sequential specification.
Main == "p1"

\* Command-line URLs: one of video "a", one of video "b" with a further
\* parameter, one without a v= component.
Urls ==
    { <<"v", "=", "a">>,
      <<"v", "=", "b", "&", "t">>,
      <<"w", "=", "a">> }

\* Raw caption tracks the provider may hand back (to_raw_data()): a track
\* without entries, and two tracks with entries.
Tracks ==
    { << >>,
      << [start |-> 0, text |-> <<"H", "i">>],
         [start |-> 65, text |-> <<"y", "o">>] >>,
      << [start |-> 3725, text |-> <<"o", "k">>] >> }

\* What one pass through the try block of get_video_transcript can end in:
\* the return, TranscriptsDisabled, NoTranscriptFound, or any other Exception.
AttemptOutcomes == {"ok", "disabled", "notfound", "transient"}

-----------------------------------------------------------------------------
(* The transcript table. *)

\* The rows of video_id.
RowsOf(rows, vid) == { i \in 1..Len(rows) : rows[i].video_id = vid }

\* Newest with the order reversed: ORDER BY created_at ASC.
Newest_oldest(rows, vid) ==
    { i \in RowsOf(rows, vid) :
        \A j \in RowsOf(rows, vid) : rows[i].created_at <= rows[j].created_at }

\* The rows ORDER BY created_at DESC may put first: those of video_id whose
\* created_at no other row of video_id exceeds.
Newest(rows, vid) ==
    { i \in RowsOf(rows, vid) :
        \A j \in RowsOf(rows, vid) : rows[j].created_at <= rows[i].created_at }

\* get_transcript_from_db: the pairs the query may return; (None, None) when
\* there is no row.
get_transcript_from_db(rows, vid) ==
    IF RowsOf(rows, vid) = {}
    THEN { <<None, None>> }
    ELSE { <<rows[i].transcript, rows[i].transcription_language>> :
             i \in Newest(rows, vid) }

\* A save that inserts the record twice.
store_transcript_twice(rows, vid, url, transcript, lang, now) ==
    LET r == [id |-> Len(rows) + 1, video_id |-> vid, url |-> url,
              transcript |-> transcript, transcription_language |-> lang,
              created_at |-> now]
    IN  Append(Append(rows, r), [r EXCEPT !.id = Len(rows) + 2])

\* store_transcript as an upsert: the row of the video id is replaced when
\* there is one.
store_transcript_upsert(rows, vid, url, transcript, lang, now) ==
    IF RowsOf(rows, vid) = {}
    THEN Append(rows, [id |-> Len(rows) + 1, video_id |-> vid, url |-> url,
                       transcript |-> transcript,
                       transcription_language |-> lang, created_at |-> now])
    ELSE [i \in 1..Len(rows) |->
            IF rows[i].video_id = vid
            THEN [rows[i] EXCEPT !.url = url, !.transcript = transcript,
                                 !.transcription_language = lang,
                                 !.created_at = now]
            ELSE rows[i]]

\* store_transcript with a commit that succeeds: one row is inserted.
store_transcript(rows, vid, url, transcript, lang, now) ==
    Append(rows, [id |-> Len(rows) + 1,
                  video_id |-> vid,
                  url |-> url,
                  transcript |-> transcript,
                  transcription_language |-> lang,
                  created_at |-> now])

\* Wall-clock time after an operation that takes time (a provider call, a
\* sleep). Only the order of created_at values is observable, so the clock
\* moves just far enough to pass every timestamp already stored.
Elapse(rows, now) ==
    IF \E i \in 1..Len(rows) : rows[i].created_at >= now THEN now + 1 ELSE now

-----------------------------------------------------------------------------
(* get_video_transcript: the decisions of the retry loop. *)

\* Delay growing linearly: base_delay * n_try.
Delay_linear(n) == base_delay * n

\* delay = base_delay * (2 ** (n_try - 1))
Delay(n) == base_delay * (2 ^ (n - 1))

\* LeavesLanguage without the except clause of NoTranscriptFound.
LeavesLanguage_retries_notfound(out, n) ==
    \/ out = "disabled"
    \/ out = "transient" /\ ~(n < max_retries)

\* TRUE when the except clause of this outcome leaves the attempt loop of the
\* language (break, or the last pass of range(1, max_retries + 1)).
LeavesLanguage(out, n) ==
    \/ out = "disabled"
    \/ out = "notfound"
    \/ out = "transient" /\ ~(n < max_retries)

\* A sleep after every transient failure, the last attempt's included.
Sleeps_after_every_failure(out, n) == out = "transient"

\* TRUE when the except clause sleeps before the next attempt.
Sleeps(out, n) == out = "transient" /\ n < max_retries

\* An exhaustion message that interpolates the video id and the languages.
ExhaustedMsg_named(vid, langs) ==
    << <<"[Error] Could not retrieve transcript after multiple attempts.">>,
       vid >> \o langs

\* The message of the ValueError raised after the language loop. A message is
\* a sequence of fragments: its literal text and the values interpolated into
\* it. This one interpolates nothing.
ExhaustedMsg(vid, langs) ==
    << <<"[Error] Could not retrieve transcript after multiple attempts.">> >>

\* The message of the ValueError raised by extract_video_id.
ExtractMsg == << <<"[Error] Could not extract video ID from URL.">> >>

\* Events recorded in trace.
Event(ev, lang, n, out, delay, track) ==
    [ev |-> ev, language |-> lang, n_try |-> n, out |-> out, delay |-> delay,
     track |-> track]

\* The return with the head of the preference list as the language.
FetchResult_first_language(track, l) == <<Render(track), languages[1]>>

\* return transcript_text, language
FetchResult(track, l) == <<Render(track), languages[l]>>

\* The last provider error raised again after the language loop.
Exhausted_reraises_last(vid, langs) == [kind |-> "TranscriptError", message |-> << >>]

\* The language loop ending in a return instead of the raise.
Exhausted_swallowed(vid, langs) == [kind |-> "returned", message |-> << >>]

\* raise ValueError(...) after the language loop.
Exhausted(vid, langs) == [kind |-> "ValueError", message |-> ExhaustedMsg(vid, langs)]


-----------------------------------------------------------------------------
(* State. *)

\* Result of a finished or running invocation.
Running == [kind |-> "running", message |-> << >>]
Returned == [kind |-> "returned", message |-> << >>]
Raised(kind, message) == [kind |-> kind, message |-> message]

NoArgs == [url |-> << >>, force_fetch |-> FALSE]

\* What is remembered of a process's previous invocation.
NoPrev ==
    [valid |-> FALSE, url |-> << >>, force_fetch |-> FALSE, kind |-> "none",
     video_transcript |-> None, transcription_language |-> None,
     fetched |-> FALSE, saved |-> FALSE]

Attempts(t) == { i \in 1..Len(t) : t[i].ev = "attempt" }
SleepsIn(t) == { i \in 1..Len(t) : t[i].ev = "sleep" }
Saves(t) == { i \in 1..Len(t) : t[i].ev = "save" }
Lookups(t) == { i \in 1..Len(t) : t[i].ev = "lookup" }

Summary(p) ==
    [valid |-> TRUE, url |-> args[p].url, force_fetch |-> args[p].force_fetch,
     kind |-> outcome[p].kind,
     video_transcript |-> video_transcript[p],
     transcription_language |-> transcription_language[p],
     fetched |-> Attempts(trace[p]) # {},
     saved |-> \E i \in Saves(trace[p]) : trace[p][i].out = "ok"]

Init ==
    /\ store = << >>
    /\ clock = 1
    /\ pc = [p \in Procs |-> "idle"]
    /\ args = [p \in Procs |-> NoArgs]
    /\ video_id = [p \in Procs |-> None]
    /\ video_transcript = [p \in Procs |-> None]
    /\ transcription_language = [p \in Procs |-> None]
    /\ language = [p \in Procs |-> 1]
    /\ n_try = [p \in Procs |-> 1]
    /\ outcome = [p \in Procs |-> Running]
    /\ trace = [p \in Procs |-> << >>]
    /\ store0 = [p \in Procs |-> << >>]
    /\ prev = [p \in Procs |-> NoPrev]
    /\ calls_left = [p \in Procs |-> IF p = Main THEN MaxCalls ELSE 0]
    /\ faults_left = MaxFaults

-----------------------------------------------------------------------------
(* main(): one action per step between two blocking operations. *)

\* main() is started with a URL and --force-fetch or not: the arguments are
\* parsed, init_db() leaves the rows alone, extract_video_id runs. Without an
\* identifier the ValueError is caught by main's handler, which returns.
Call(p, url, force) ==
    /\ pc[p] \in {"idle", "done"}
    /\ calls_left[p] > 0
    /\ calls_left' = [calls_left EXCEPT ![p] = @ - 1]
    /\ prev' = [prev EXCEPT ![p] = IF pc[p] = "done" THEN Summary(p) ELSE @]
    /\ args' = [args EXCEPT ![p] = [url |-> url, force_fetch |-> force]]
    /\ store0' = [store0 EXCEPT ![p] = store]
    /\ trace' = [trace EXCEPT ![p] = << >>]
    /\ video_transcript' = [video_transcript EXCEPT ![p] = None]
    /\ transcription_language' = [transcription_language EXCEPT ![p] = None]
    /\ language' = [language EXCEPT ![p] = 1]
    /\ n_try' = [n_try EXCEPT ![p] = 1]
    /\ IF HasVideoId(url)
       THEN /\ video_id' = [video_id EXCEPT ![p] = extract_video_id(url)]
            /\ outcome' = [outcome EXCEPT ![p] = Running]
            /\ pc' = [pc EXCEPT ![p] = IF force THEN "fetch" ELSE "lookup"]
       ELSE /\ video_id' = [video_id EXCEPT ![p] = None]
            /\ outcome' = [outcome EXCEPT ![p] = Raised("ValueError", ExtractMsg)]
            /\ pc' = [pc EXCEPT ![p] = "done"]
    /\ UNCHANGED <<store, clock, faults_left>>

\* The lookup result ignored: main always goes on to get_video_transcript.
CacheHit_never(transcript) == FALSE

\* TRUE when main skips get_video_transcript: `if not video_transcript` is
\* false.
CacheHit(transcript) == Truthy(transcript)

\* get_transcript_from_db(video_id) returns: on a truthy transcript main is
\* done with the acquisition, otherwise it goes on to get_video_transcript.
Lookup(p) ==
    /\ pc[p] = "lookup"
    /\ \E r \in get_transcript_from_db(store, video_id[p]) :
         /\ video_transcript' = [video_transcript EXCEPT ![p] = r[1]]
         /\ transcription_language' = [transcription_language EXCEPT ![p] = r[2]]
         /\ trace' = [trace EXCEPT ![p] =
                Append(@, Event("lookup", << >>, 0,
                                IF r[1] = None THEN "absent" ELSE "found", 0, << >>))]
         /\ IF CacheHit(r[1])
            THEN /\ pc' = [pc EXCEPT ![p] = "done"]
                 /\ outcome' = [outcome EXCEPT ![p] = Returned]
            ELSE /\ pc' = [pc EXCEPT ![p] = "fetch"]
                 /\ UNCHANGED outcome
    /\ UNCHANGED <<store, clock, args, video_id, language, n_try, store0,
                   prev, calls_left,
                   faults_left>>

\* The query of get_transcript_from_db raises (the database cannot be read):
\* the exception is no ValueError, so main's handler does not catch it.
LookupFails(p) ==
    /\ pc[p] = "lookup"
    /\ trace' = [trace EXCEPT ![p] = Append(@, Event("lookup", << >>, 0, "error", 0, << >>))]
    /\ pc' = [pc EXCEPT ![p] = "done"]
    /\ outcome' = [outcome EXCEPT ![p] = Raised("DBError", << >>)]
    /\ UNCHANGED <<store, clock, args, video_id, video_transcript,
                   transcription_language, language, n_try, store0, prev,
                   calls_left,
                   faults_left>>

\* Where get_video_transcript goes when the attempt loop of language l is
\* left without a return: the next language, or the ValueError after the
\* loops, which main's handler catches.
LeaveLanguage(p, l) ==
    IF l < Len(languages)
    THEN /\ language' = [language EXCEPT ![p] = l + 1]
         /\ n_try' = [n_try EXCEPT ![p] = 1]
         /\ pc' = [pc EXCEPT ![p] = "fetch"]
         /\ UNCHANGED outcome
    ELSE /\ pc' = [pc EXCEPT ![p] = "done"]
         /\ outcome' = [outcome EXCEPT ![p] = Exhausted(video_id[p], languages)]
         /\ UNCHANGED <<language, n_try>>

\* One pass through the try block for the current language and n_try.
Attempt(p, out, track) ==
    /\ pc[p] = "fetch"
    /\ IF out = "ok"
       THEN UNCHANGED faults_left
       ELSE faults_left > 0 /\ faults_left' = faults_left - 1
    /\ clock' = Elapse(store, clock)
    /\ trace' = [trace EXCEPT ![p] =
           Append(@, Event("attempt", languages[language[p]], n_try[p], out, 0,
                           IF out = "ok" THEN track ELSE << >>))]
    /\ IF out = "ok"
       THEN /\ video_transcript' =
                   [video_transcript EXCEPT ![p] = FetchResult(track, language[p])[1]]
            /\ transcription_language' =
                   [transcription_language EXCEPT ![p] = FetchResult(track, language[p])[2]]
            /\ pc' = [pc EXCEPT ![p] = "save"]
            /\ UNCHANGED <<language, n_try, outcome>>
       ELSE /\ UNCHANGED <<video_transcript, transcription_language>>
            /\ IF Sleeps(out, n_try[p])
               THEN /\ pc' = [pc EXCEPT ![p] = "sleep"]
                    /\ UNCHANGED <<language, n_try, outcome>>
               ELSE IF LeavesLanguage(out, n_try[p])
               THEN LeaveLanguage(p, language[p])
               ELSE \* the except clause falls through to the next pass
                    /\ n_try' = [n_try EXCEPT ![p] = @ + 1]
                    /\ UNCHANGED <<pc, language, outcome>>
    /\ UNCHANGED <<store, args, video_id, store0, prev, calls_left>>

\* time.sleep(delay) returns and the next pass of the attempt loop begins.
Sleep(p) ==
    /\ pc[p] = "sleep"
    /\ clock' = Elapse(store, clock)
    /\ trace' = [trace EXCEPT ![p] =
           Append(@, Event("sleep", languages[language[p]], n_try[p], "",
                           Delay(n_try[p]), << >>))]
    /\ n_try' = [n_try EXCEPT ![p] = @ + 1]
    /\ pc' = [pc EXCEPT ![p] = "fetch"]
    /\ UNCHANGED <<store, args, video_id, video_transcript,
                   transcription_language, language, outcome, store0, prev,
                   calls_left,
                   faults_left>>

\* store_transcript commits; main goes on with the fetched pair.
Save(p) ==
    /\ pc[p] = "save"
    /\ store' = store_transcript(store, video_id[p], args[p].url,
                                 video_transcript[p],
                                 transcription_language[p], clock)
    /\ trace' = [trace EXCEPT ![p] = Append(@, Event("save", << >>, 0, "ok", 0, << >>))]
    /\ pc' = [pc EXCEPT ![p] = "done"]
    /\ outcome' = [outcome EXCEPT ![p] = Returned]
    /\ UNCHANGED <<clock, args, video_id, video_transcript,
                   transcription_language, language, n_try, store0, prev,
                   calls_left,
                   faults_left>>

\* The exception of store_transcript left to propagate out of main.
OnSaveError_propagates == [kind |-> "DBError", message |-> << >>]

\* What main does when store_transcript raises: `except Exception` logs the
\* failure and main goes on.
OnSaveError == Returned

\* store_transcript raises: nothing is committed.
SaveFails(p) ==
    /\ pc[p] = "save"
    /\ trace' = [trace EXCEPT ![p] = Append(@, Event("save", << >>, 0, "error", 0, << >>))]
    /\ pc' = [pc EXCEPT ![p] = "done"]
    /\ outcome' = [outcome EXCEPT ![p] = OnSaveError]
    /\ UNCHANGED <<store, clock, args, video_id, video_transcript,
                   transcription_language, language, n_try, store0, prev,
                   calls_left,
                   faults_left>>

Step(p) ==
    \/ \E url \in Urls, force \in BOOLEAN : Call(p, url, force)
    \/ Lookup(p)
    \/ LookupFails(p)
    \/ \E out \in AttemptOutcomes, track \in Tracks : Attempt(p, out, track)
    \/ Sleep(p)
    \/ Save(p)
    \/ SaveFails(p)

\* One process runs main() again and again, as the tool is used.
Next == Step(Main)

Spec == Init /\ [][Next]_vars

\* A database an earlier run left behind: empty, or one row of video "a".
EarlierStores ==
    { << >>,
      store_transcript(<< >>, <<"a">>, <<"v", "=", "a">>,
                       <<"[", "0", "0", ":", "0", "0", ":", "0", "7", "]", "o", "l", "d">>,
                       Fa, 0) }

\* One invocation of main() against a provider that may fail every call of
\* every language.
InitRetry ==
    /\ store \in EarlierStores
    /\ clock = 1
    /\ pc = [p \in Procs |-> "idle"]
    /\ args = [p \in Procs |-> NoArgs]
    /\ video_id = [p \in Procs |-> None]
    /\ video_transcript = [p \in Procs |-> None]
    /\ transcription_language = [p \in Procs |-> None]
    /\ language = [p \in Procs |-> 1]
    /\ n_try = [p \in Procs |-> 1]
    /\ outcome = [p \in Procs |-> Running]
    /\ trace = [p \in Procs |-> << >>]
    /\ store0 = [p \in Procs |-> << >>]
    /\ prev = [p \in Procs |-> NoPrev]
    /\ calls_left = [p \in Procs |-> IF p = Main THEN 1 ELSE 0]
    /\ faults_left = Len(languages) * max_retries

SpecRetry == InitRetry /\ [][Next]_vars

\* The same invocation when every blocking operation returns: the process,
\* the database, the provider call and time.sleep each come back, so main()
\* goes on whenever it has a next step.
SpecRetryFair == InitRetry /\ [][Next]_vars /\ WF_vars(Next)

\* A step of a process that is started on the URL of video "a" without
\* --force-fetch.
StepSame(p) ==
    \/ Call(p, <<"v", "=", "a">>, FALSE)
    \/ Lookup(p)
    \/ LookupFails(p)
    \/ \E out \in AttemptOutcomes, track \in Tracks : Attempt(p, out, track)
    \/ Sleep(p)
    \/ Save(p)
    \/ SaveFails(p)

\* Two processes run main() on the same video against the one database,
\* their steps interleaved in any order; the first process is run once more.
NextConc == \E p \in Procs : StepSame(p)

InitConc ==
    /\ store = << >>
    /\ clock = 1
    /\ pc = [p \in Procs |-> "idle"]
    /\ args = [p \in Procs |-> NoArgs]
    /\ video_id = [p \in Procs |-> None]
    /\ video_transcript = [p \in Procs |-> None]
    /\ transcription_language = [p \in Procs |-> None]
    /\ language = [p \in Procs |-> 1]
    /\ n_try = [p \in Procs |-> 1]
    /\ outcome = [p \in Procs |-> Running]
    /\ trace = [p \in Procs |-> << >>]
    /\ store0 = [p \in Procs |-> << >>]
    /\ prev = [p \in Procs |-> NoPrev]
    /\ calls_left = [p \in Procs |-> IF p = Main THEN 2 ELSE 1]
    /\ faults_left = MaxFaults

SpecConc == InitConc /\ [][NextConc]_vars

\* URLs over a small alphabet: two identifier characters and the two
\* separators of a query string.
MaxUrlLen == 8

UrlAlphabet == {"v", "a", "=", "&"}

BoundedUrls == UNION { [1..n -> UrlAlphabet] : n \in 0..MaxUrlLen }

\* main() started on any URL of the alphabet.
CallAny(p) ==
    /\ pc[p] = "idle"
    /\ \E url \in BoundedUrls : Call(p, url, FALSE)

\* One run of main() up to the end of extract_video_id.
NextExtract == CallAny(Main)

SpecExtract == InitRetry /\ [][NextExtract]_vars

\* Whole start offsets: every second of the first hour, and the first and
\* last seconds and minutes of every hour up to MaxHours, beyond 99.
MaxHours == 101

StartOffsets ==
    (0..3599) \cup
    { h * 3600 + r : h \in 0..MaxHours, r \in {0, 1, 59, 60, 3540, 3599} }

\* Tracks of one entry, one for every start offset.
SecondsTracks == { << [start |-> s, text |-> <<"x">>] >> : s \in StartOffsets }

\* Tracks of a few entries whose start offsets come in any order and whose
\* texts may be empty or hold a line break, as caption texts do.
MaxEntries == 2

EntryStarts == {0, 7, 65, 3725}

EntryTexts == { << >>, <<"H", "i">>, <<"a", "\n", "b">> }

TimedTracks ==
    UNION { [1..n -> [start : EntryStarts, text : EntryTexts]] : n \in 0..MaxEntries }

\* The first provider call succeeds with any of these tracks.
FetchAny(p) ==
    /\ pc[p] = "fetch"
    /\ \E track \in SecondsTracks \cup TimedTracks : Attempt(p, "ok", track)

\* One forced run of main() up to the return of get_video_transcript.
NextRender ==
    \/ Call(Main, <<"v", "=", "a">>, TRUE)
    \/ FetchAny(Main)

\* The database is empty before the run.
InitRender == InitRetry /\ store = << >>

SpecRender == InitRender /\ [][NextRender]_vars

-----------------------------------------------------------------------------
(* Properties. *)

LastEvent(p) == trace[p][Len(trace[p])]

\* The invocation of p has ended by reaching the prompt rendering.
ReturnedPair(p) == pc[p] = "done" /\ outcome[p].kind = "returned"

\* The store lookup of the invocation raised.
LookupRaised(p) == \E i \in Lookups(trace[p]) : trace[p][i].out = "error"

\* p is in (or has ended) the second of two consecutive invocations without
\* --force-fetch on one URL, the first of which returned a transcript.
SecondOfPair(p) ==
    /\ pc[p] # "idle"
    /\ prev[p].valid
    /\ prev[p].kind = "returned"
    /\ prev[p].url = args[p].url
    /\ ~prev[p].force_fetch
    /\ ~args[p].force_fetch

SamePairAsBefore(p) ==
    /\ video_transcript[p] = prev[p].video_transcript
    /\ transcription_language[p] = prev[p].transcription_language

\* C1 as stated, for the videos whose track has entries: of two consecutive
\* acquire calls without bypass on one URL, the second makes no provider call
\* and returns the text and language the first returned, whether or not the
\* first call's save succeeded.
C1_IdempotentAlways ==
    \A p \in Procs :
        SecondOfPair(p) /\ ~LookupRaised(p) /\ Truthy(prev[p].video_transcript) =>
            /\ Attempts(trace[p]) = {}
            /\ ReturnedPair(p) => SamePairAsBefore(p)

\* The first invocation left its transcript readable: the text is not empty
\* and it came from the store or was saved to it.
LeftInStore(p) ==
    /\ Truthy(prev[p].video_transcript)
    /\ prev[p].saved \/ ~prev[p].fetched

\* C1 amended: of two consecutive acquire calls without bypass on one URL,
\* when the first returned a non-empty text that it read from the store or
\* saved to it, the second makes no provider call and no write and returns
\* the same text and language (at most one fetch in total); when the first
\* save failed or the text is empty, the second call fetches again.
C1_IdempotentWhenSaved ==
    \A p \in Procs :
        SecondOfPair(p) /\ ~LookupRaised(p) =>
            /\ LeftInStore(p) =>
                 /\ Attempts(trace[p]) = {}
                 /\ Saves(trace[p]) = {}
                 /\ ReturnedPair(p) => SamePairAsBefore(p)
            /\ ~LeftInStore(p) /\ pc[p] = "done" => Attempts(trace[p]) # {}

\* The second call of a pair was served from the store after the first
\* fetched and saved.
C1_Witness ==
    \E p \in Procs :
        /\ SecondOfPair(p)
        /\ ReturnedPair(p)
        /\ prev[p].fetched /\ prev[p].saved
        /\ Lookups(trace[p]) # {}
        /\ SamePairAsBefore(p)

\* C2: an acquire call without bypass that finds a record of the video id in
\* the store makes no provider call and no store write and returns the text
\* and language of that record, whatever the stored text is.
C2_HitMeansNoNetwork ==
    \A p \in Procs :
        /\ pc[p] # "idle"
        /\ video_id[p] # None
        /\ ~args[p].force_fetch
        /\ RowsOf(store0[p], video_id[p]) # {}
        /\ ~LookupRaised(p)
        => /\ Attempts(trace[p]) = {}
           /\ Saves(trace[p]) = {}
           /\ ReturnedPair(p) =>
                <<video_transcript[p], transcription_language[p]>>
                    \in get_transcript_from_db(store0[p], video_id[p])

-----------------------------------------------------------------------------
(* The retry loop. *)

\* The events of one language, in order.
LangEvents(t, l) == SelectSeq(t, LAMBDA e : e.language = l)

\* The sleeps the schedule prescribes after failed attempts 1, 2, ...
Schedule == <<2, 4, 8, 16, 32, 64>>

\* C3: within one language, when attempt k succeeds, attempts 1..k-1 failed
\* transiently, exactly k-1 sleeps occurred, the i-th of 2 * 2^(i-1) seconds
\* between attempt i and attempt i+1, and nothing of that language (no sleep,
\* no attempt) follows the successful attempt.
C3_BackoffSchedule ==
    \A p \in Procs : \A l \in {En, Fa} :
        LET es == LangEvents(trace[p], l)
        IN  \A j \in 1..Len(es) :
              es[j].ev = "attempt" /\ es[j].out = "ok" =>
                LET k == es[j].n_try
                IN  /\ k \in 1..7
                    /\ j = 2 * k - 1
                    /\ j = Len(es)
                    /\ Cardinality(SleepsIn(es)) = k - 1
                    /\ \A i \in 1..(k - 1) :
                         /\ es[2 * i - 1].ev = "attempt"
                         /\ es[2 * i - 1].n_try = i
                         /\ es[2 * i - 1].out = "transient"
                         /\ es[2 * i].ev = "sleep"
                         /\ es[2 * i].delay = Schedule[i]
                    /\ pc[p] \notin {"sleep", "fetch"}

\* The seventh attempt of the second language succeeds after six sleeps.
C3_Witness ==
    \E p \in Procs :
        /\ pc[p] = "done"
        /\ \E i \in Attempts(trace[p]) :
             /\ trace[p][i].out = "ok"
             /\ trace[p][i].n_try = 7
             /\ trace[p][i].language = Fa
        /\ Cardinality({ i \in SleepsIn(trace[p]) : trace[p][i].language = Fa }) = 6

\* The language after l in the preference order, << >> after the last.
After(l) == IF l = En THEN Fa ELSE << >>

\* C4: after an attempt that fails with captioning disabled or with no
\* transcript for the language, on any attempt number, no sleep and no
\* further attempt of that language follows: the next event is attempt 1 of
\* the next language, or the exhaustion error after the last language.
C4_AbortOnPermanent ==
    \A p \in Procs : \A i \in Attempts(trace[p]) :
        LET e == trace[p][i]
        IN  e.out \in {"disabled", "notfound"} =>
              /\ \A j \in (i + 1)..Len(trace[p]) :
                    trace[p][j].language # e.language
              /\ i < Len(trace[p]) =>
                    /\ After(e.language) # << >>
                    /\ trace[p][i + 1].ev = "attempt"
                    /\ trace[p][i + 1].language = After(e.language)
                    /\ trace[p][i + 1].n_try = 1
              /\ i = Len(trace[p]) =>
                    IF After(e.language) = << >>
                    THEN /\ pc[p] = "done"
                         /\ outcome[p].kind = "ValueError"
                    ELSE /\ pc[p] = "fetch"
                         /\ languages[language[p]] = After(e.language)
                         /\ n_try[p] = 1

\* "No transcript" on the third attempt of en is followed by attempt 1 of fa.
C4_Witness ==
    \E p \in Procs : \E i \in Attempts(trace[p]) :
        /\ trace[p][i].out = "notfound"
        /\ trace[p][i].language = En
        /\ trace[p][i].n_try = 3
        /\ i < Len(trace[p])
        /\ trace[p][i + 1].language = Fa

\* An attempt that ends the attempts of its language without a transcript.
Failed(e) ==
    /\ e.ev = "attempt"
    /\ \/ e.out \in {"disabled", "notfound"}
       \/ e.out = "transient" /\ e.n_try = 7

\* C5: the languages are tried in the order en, fa; a successful attempt is
\* the last attempt of the call, the language returned is the language of
\* that attempt, and fa is attempted only after en has failed.
C5_FirstSuccessWins ==
    \A p \in Procs : \A i \in Attempts(trace[p]) :
        LET e == trace[p][i]
        IN  /\ e.out = "ok" =>
                /\ \A j \in Attempts(trace[p]) : j <= i
                /\ transcription_language[p] = e.language
                /\ video_transcript[p] = Render(e.track)
            /\ e.language = Fa =>
                /\ \E j \in 1..(i - 1) :
                      trace[p][j].language = En /\ Failed(trace[p][j])
                /\ \A j \in Attempts(trace[p]) :
                      trace[p][j].language = En => j < i /\ trace[p][j].out # "ok"
            /\ e.language = En =>
                \A j \in 1..(i - 1) : trace[p][j].language # Fa

\* fa is returned after seven transient failures of en.
C5_Witness ==
    \E p \in Procs :
        /\ ReturnedPair(p)
        /\ transcription_language[p] = Fa
        /\ \E i \in Attempts(trace[p]) :
             /\ trace[p][i].language = En
             /\ trace[p][i].n_try = 7
        /\ \E i \in Attempts(trace[p]) : trace[p][i].out = "ok"

-----------------------------------------------------------------------------
(* Exhaustion and the save. *)

AllLanguagesFailed(t) ==
    \A l \in {En, Fa} :
        \E i \in Attempts(t) : t[i].language = l /\ Failed(t[i])

\* C6: when every language has failed (disabled, no transcript, or seven
\* transient failures, in any combination) acquire ends with the exhaustion
\* error, nothing fetched, and the store is what it was before the call; and
\* the error is raised in no other case.
C6_Exhaustion ==
    \A p \in Procs :
        /\ AllLanguagesFailed(trace[p]) =>
             /\ pc[p] = "done"
             /\ outcome[p].kind = "ValueError"
             /\ outcome[p].message # ExtractMsg
             /\ store = store0[p]
             /\ Saves(trace[p]) = {}
             /\ ~Truthy(video_transcript[p])
        /\ pc[p] = "done" /\ outcome[p].kind = "ValueError" /\ Attempts(trace[p]) # {} =>
             AllLanguagesFailed(trace[p])

\* Exhaustion by a permanent failure of en and seven transient failures of
\* fa, with a row already in the store.
C6_Witness ==
    \E p \in Procs :
        /\ pc[p] = "done"
        /\ outcome[p].kind = "ValueError"
        /\ store0[p] # << >>
        /\ \E i \in Attempts(trace[p]) :
             trace[p][i].language = En /\ trace[p][i].out = "disabled"
        /\ \E i \in Attempts(trace[p]) :
             /\ trace[p][i].language = Fa
             /\ trace[p][i].out = "transient"
             /\ trace[p][i].n_try = 7

\* The invocation ended with the error raised after the language loop.
EndedExhausted(p) ==
    /\ pc[p] = "done"
    /\ outcome[p].kind = "ValueError"
    /\ Attempts(trace[p]) # {}

Fragments(message) == { message[i] : i \in 1..Len(message) }

\* C7 as stated: the exhaustion error carries the video identifier requested
\* and the languages attempted.
C7_ErrorNamesVideoAndLanguages ==
    \A p \in Procs :
        EndedExhausted(p) =>
            /\ video_id[p] \in Fragments(outcome[p].message)
            /\ {En, Fa} \subseteq Fragments(outcome[p].message)

\* C7 amended: the exhaustion error carries one fixed message and names
\* neither the video identifier nor the languages attempted.
C7_ErrorIsFixedText ==
    \A p \in Procs :
        EndedExhausted(p) =>
            /\ outcome[p].message =
                 << <<"[Error] Could not retrieve transcript after multiple attempts.">> >>
            /\ video_id[p] \notin Fragments(outcome[p].message)
            /\ Fragments(outcome[p].message) \cap {En, Fa} = {}

\* Exhaustion for video "b".
C7_Witness ==
    \E p \in Procs : EndedExhausted(p) /\ video_id[p] = <<"b">>

SaveRaised(p) == \E i \in Saves(trace[p]) : trace[p][i].out = "error"

\* C8: when the fetch succeeds and the store write that follows fails,
\* acquire does not fail: it goes on with exactly the text and language just
\* fetched, and the store holds no new record.
C8_SaveFailureAbsorbed ==
    \A p \in Procs :
        SaveRaised(p) =>
            /\ pc[p] = "done"
            /\ outcome[p].kind = "returned"
            /\ store = store0[p]
            /\ \E i \in Attempts(trace[p]) :
                 /\ trace[p][i].out = "ok"
                 /\ video_transcript[p] = Render(trace[p][i].track)
                 /\ transcription_language[p] = trace[p][i].language

\* A failed save after a fetch of a track with entries, in the second
\* language.
C8_Witness ==
    \E p \in Procs :
        /\ SaveRaised(p)
        /\ Truthy(video_transcript[p])
        /\ transcription_language[p] = Fa
        /\ store0[p] # << >>

-----------------------------------------------------------------------------
(* The store. *)

Vids == {<<"a">>, <<"b">>, <<"c">>}

\* pair is the text and language of a row of vid that no row of vid exceeds
\* in created_at.
IsFreshest(rows, vid, pair) ==
    \E i \in 1..Len(rows) :
        /\ rows[i].video_id = vid
        /\ pair = <<rows[i].transcript, rows[i].transcription_language>>
        /\ \A j \in 1..Len(rows) :
             rows[j].video_id = vid => rows[j].created_at <= rows[i].created_at

HasRow(rows, vid) == \E i \in 1..Len(rows) : rows[i].video_id = vid

\* C9: on every store a sequence of saves can produce, the lookup of a video
\* id returns the text and language of its record with the greatest
\* created_at, never those of another id's record, and returns (None, None),
\* without raising, when the id has no record; main holds that result after
\* its lookup.
C9_Freshness ==
    /\ \A vid \in Vids :
         LET rs == get_transcript_from_db(store, vid)
         IN  /\ rs # {}
             /\ \A r \in rs :
                  IF HasRow(store, vid)
                  THEN IsFreshest(store, vid, r)
                  ELSE r = <<None, None>>
    /\ \A p \in Procs :
         trace[p] # << >> /\ LastEvent(p).ev = "lookup" /\ LastEvent(p).out # "error" =>
             LET r == <<video_transcript[p], transcription_language[p]>>
             IN  IF HasRow(store, video_id[p])
                 THEN IsFreshest(store, video_id[p], r) /\ LastEvent(p).out = "found"
                 ELSE /\ r = <<None, None>>
                      /\ LastEvent(p).out = "absent"
                      /\ outcome[p].kind = "running"

\* A lookup of a video with two records of different texts returned the
\* later one, with a record of the other video in the store or not.
C9_Witness ==
    \E p \in Procs :
        /\ trace[p] # << >>
        /\ LastEvent(p).ev = "lookup"
        /\ LastEvent(p).out = "found"
        /\ \E i, j \in 1..Len(store) :
             /\ store[i].video_id = video_id[p]
             /\ store[j].video_id = video_id[p]
             /\ store[i].created_at < store[j].created_at
             /\ store[i].transcript # store[j].transcript
             /\ video_transcript[p] = store[j].transcript

IsPrefix(a, b) == Len(a) <= Len(b) /\ \A i \in 1..Len(a) : b[i] = a[i]

\* C10: every step keeps every record, all fields unchanged, at its place;
\* the number of records never decreases; a step that adds records adds one;
\* and a lookup changes nothing in the store.
C10_AppendOnly ==
    [][ /\ IsPrefix(store, store')
        /\ Len(store') <= Len(store) + 1
        /\ (\E p \in Procs :
              /\ Len(trace'[p]) = Len(trace[p]) + 1
              /\ trace'[p][Len(trace'[p])].ev = "lookup") => store' = store
      ]_vars

\* Two saves of one video have happened and a lookup has followed them.
C10_Witness ==
    \E p \in Procs :
        /\ trace[p] # << >>
        /\ LastEvent(p).ev = "lookup"
        /\ Cardinality(RowsOf(store, video_id[p])) >= 2

-----------------------------------------------------------------------------
(* The orchestration. *)

SavedOk(p) == \E i \in Saves(trace[p]) : trace[p][i].out = "ok"

FetchedOk(p) == \E i \in Attempts(trace[p]) : trace[p][i].out = "ok"

\* C11 as stated: an acquire call, with or without bypass, writes to the
\* store at most once, and only when the store held no record of the video
\* id when the call began and the fetch succeeded.
C11_WriteOnlyOnMiss ==
    \A p \in Procs :
        /\ Cardinality(Saves(trace[p])) <= 1
        /\ SavedOk(p) => RowsOf(store0[p], video_id[p]) = {} /\ FetchedOk(p)

\* The newest record of vid, when there is one, has an empty text.
NewestIsEmpty(rows, vid) ==
    /\ HasRow(rows, vid)
    /\ \A i \in 1..Len(rows) :
         /\ rows[i].video_id = vid
         /\ \A j \in 1..Len(rows) :
              rows[j].video_id = vid => rows[j].created_at <= rows[i].created_at
         => rows[i].transcript = << >>

\* C11 amended: an acquire call writes to the store at most once, the write
\* follows a successful fetch of that call and adds one record, and the call
\* fetches (and so may write) exactly when bypass_cache is true, whatever the
\* store holds, or the store holds no record of the video id, or the newest
\* record of the id has an empty text; a call that fetched nothing leaves the
\* store as it was.
C11_WriteAfterFetch ==
    \A p \in Procs :
        /\ Cardinality(Saves(trace[p])) <= 1
        /\ Saves(trace[p]) # {} =>
             /\ FetchedOk(p)
             /\ \A i \in Saves(trace[p]) : \A j \in Attempts(trace[p]) : j < i
        /\ Attempts(trace[p]) # {} =>
             \/ args[p].force_fetch
             \/ ~HasRow(store0[p], video_id[p])
             \/ NewestIsEmpty(store0[p], video_id[p])
        /\ pc[p] = "done" /\ video_id[p] # None /\ ~LookupRaised(p)
           /\ (\/ args[p].force_fetch
               \/ ~HasRow(store0[p], video_id[p])
               \/ NewestIsEmpty(store0[p], video_id[p]))
           => Attempts(trace[p]) # {}
        /\ IF SavedOk(p)
           THEN /\ Len(store) = Len(store0[p]) + 1
                /\ IsPrefix(store0[p], store)
                /\ store[Len(store)].video_id = video_id[p]
                /\ store[Len(store)].transcript = video_transcript[p]
           ELSE pc[p] # "idle" => store = store0[p]

\* A call with bypass wrote a second record of a video whose record has a
\* text.
C11_Witness ==
    \E p \in Procs :
        /\ pc[p] = "done"
        /\ args[p].force_fetch
        /\ SavedOk(p)
        /\ HasRow(store0[p], video_id[p])
        /\ ~NewestIsEmpty(store0[p], video_id[p])

\* C12: for a URL without a recognizable identifier acquire ends with the
\* extraction error and has made no store lookup, no provider call, no sleep
\* and no store write; the error ends no other call so.
C12_ExtractionFailsFast ==
    \A p \in Procs :
        /\ pc[p] # "idle" /\ args[p].url = <<"w", "=", "a">> =>
             /\ pc[p] = "done"
             /\ outcome[p].kind = "ValueError"
             /\ outcome[p].message =
                  << <<"[Error] Could not extract video ID from URL.">> >>
             /\ trace[p] = << >>
             /\ store = store0[p]
        /\ pc[p] # "idle" /\ args[p].url # <<"w", "=", "a">> =>
             outcome[p].message # << <<"[Error] Could not extract video ID from URL.">> >>

\* The extraction error with records in the store.
C12_Witness ==
    \E p \in Procs :
        /\ pc[p] = "done"
        /\ args[p].url = <<"w", "=", "a">>
        /\ outcome[p].kind = "ValueError"
        /\ Len(store) >= 2

\* C13: a failure of the store, during the lookup as during the save, is
\* contained: an acquire call ends by returning the pair, with the extraction
\* error or with the exhaustion error, never with another error.
C13_StoreFailuresContained ==
    \A p \in Procs :
        pc[p] = "done" => outcome[p].kind \in {"returned", "ValueError"}

-----------------------------------------------------------------------------
(* Identifier extraction. *)

\* Positions i..j of url hold a query component, delimited by "&" or the ends
\* of the string, that reads v=<id> with a non-empty identifier.
IsVComponent(url, i, j) ==
    /\ i = 1 \/ url[i - 1] = "&"
    /\ j = Len(url) \/ url[j + 1] = "&"
    /\ i + 2 <= j
    /\ url[i] = "v"
    /\ url[i + 1] = "="
    /\ \A k \in (i + 2)..j : url[k] \in IdChars

\* Somewhere in url the characters v= are followed by an identifier character.
HasVEqualsId(url) ==
    \E i \in 1..Len(url) :
        /\ i + 2 <= Len(url)
        /\ url[i] = "v"
        /\ url[i + 1] = "="
        /\ url[i + 2] \in IdChars

\* C14: for a URL with a query component v=<id>, extraction returns exactly
\* the identifier of (the first) such component, also when an earlier
\* parameter name ends in "v"; for a URL in which no v= is followed by an
\* identifier character, extraction fails and no identifier is returned.
C14_ExtractsQueryParameter ==
    \A p \in Procs :
        pc[p] # "idle" =>
            LET url == args[p].url IN
            /\ \A i \in 1..Len(url) : \A j \in i..Len(url) :
                 /\ IsVComponent(url, i, j)
                 /\ ~ \E i2 \in 1..(i - 1) : \E j2 \in i2..Len(url) :
                        IsVComponent(url, i2, j2)
                 => video_id[p] = SubSeq(url, i + 2, j)
            /\ ~HasVEqualsId(url) =>
                 /\ video_id[p] = None
                 /\ outcome[p] = Raised("ValueError", ExtractMsg)

-----------------------------------------------------------------------------
(* Timestamp rendering. *)

IsDigit(c) == \E i \in 1..10 : Digit[i] = c

DigitVal(c) == CHOOSE d \in 0..9 : Digit[d + 1] = c

\* The number a string of digits denotes.
RECURSIVE Val(_)
Val(ds) ==
    IF ds = << >> THEN 0
    ELSE 10 * Val(SubSeq(ds, 1, Len(ds) - 1)) + DigitVal(ds[Len(ds)])

\* Code points of the characters of a timestamp.
Ord(c) == IF c = ":" THEN 58 ELSE 48 + DigitVal(c)

\* a <= b in the order of strings.
RECURSIVE LexLeq(_, _)
LexLeq(a, b) ==
    IF a = << >> THEN TRUE
    ELSE IF b = << >> THEN FALSE
    ELSE IF a[1] = b[1] THEN LexLeq(Tail(a), Tail(b))
    ELSE Ord(a[1]) < Ord(b[1])

\* The process has fetched a track of one entry.
RenderedOne(p) ==
    /\ pc[p] = "save"
    /\ Len(LastEvent(p).track) = 1

\* The start offset of that entry and the timestamp between the brackets of
\* the text made of it.
StartOf(p) == LastEvent(p).track[1].start

TimestampOf(p) ==
    SubSeq(video_transcript[p], 2,
           Len(video_transcript[p]) - Len(LastEvent(p).track[1].text) - 1)

\* Larger offsets a rendering is compared with.
Later(s) ==
    { s2 \in {s + 1, s + 60, s + 3600, 35999, 359999, MaxHours * 3600} : s <= s2 }

\* ts reads <hours>:MM:SS for s, the hours written with hlen digits.
ReadsAs(ts, s, hlen) ==
    /\ Len(ts) = hlen + 6
    /\ ts[hlen + 1] = ":"
    /\ ts[hlen + 4] = ":"
    /\ \A i \in (1..(hlen + 6)) \ {hlen + 1, hlen + 4} : IsDigit(ts[i])
    /\ Val(SubSeq(ts, 1, hlen)) = s \div 3600
    /\ Val(SubSeq(ts, hlen + 2, hlen + 3)) = (s % 3600) \div 60
    /\ Val(SubSeq(ts, hlen + 2, hlen + 3)) < 60
    /\ Val(SubSeq(ts, hlen + 5, hlen + 6)) = s % 60
    /\ Val(SubSeq(ts, hlen + 5, hlen + 6)) < 60

\* C15 as stated: for every whole s >= 0 of the range, 360000 and more
\* included, the rendering is HH:MM:SS with hours = s div 3600, minutes and
\* seconds below 60 and every field of exactly two digits, and a later offset
\* never renders to a smaller string.
C15_TwoDigitFieldsAlways ==
    \A p \in Procs :
        RenderedOne(p) =>
            /\ ReadsAs(TimestampOf(p), StartOf(p), 2)
            /\ \A s2 \in Later(StartOf(p)) :
                 LexLeq(TimestampOf(p), convert_seconds_to_timestamp(s2))

\* C15 amended: below 360000 seconds the rendering is HH:MM:SS with two-digit
\* fields, hours = s div 3600, minutes and seconds below 60, and keeps the
\* order of the offsets in string order; from 360000 on the hours field has
\* three or more digits without a leading zero, minutes and seconds keep two,
\* and string order follows the offsets only among renderings whose hours
\* fields are equally long.
C15_TwoDigitFieldsBelow100Hours ==
    \A p \in Procs :
        RenderedOne(p) =>
            LET s  == StartOf(p)
                ts == TimestampOf(p)
                hl == IF s < 360000 THEN 2 ELSE Len(ts) - 6
            IN  /\ video_transcript[p][1] = "["
                /\ video_transcript[p][Len(ts) + 2] = "]"
                /\ ReadsAs(ts, s, hl)
                /\ s >= 360000 => hl >= 3 /\ ts[1] # "0"
                /\ \A s2 \in Later(s) :
                     Len(convert_seconds_to_timestamp(s2)) = Len(ts)
                     => LexLeq(ts, convert_seconds_to_timestamp(s2))
                /\ s < 360000 =>
                     \A s2 \in Later(s) :
                        s2 < 360000 => Len(convert_seconds_to_timestamp(s2)) = 8

\* An offset of a hundred hours has been rendered.
C15_Witness ==
    \E p \in Procs :
        /\ RenderedOne(p)
        /\ StartOf(p) >= 360000
        /\ Len(TimestampOf(p)) = 9

-----------------------------------------------------------------------------
(* Normalization of the provider's entries. *)

\* str.split("\n")
RECURSIVE Split(_)
Split(text) ==
    IF \A i \in 1..Len(text) : text[i] # "\n" THEN <<text>>
    ELSE LET i == CHOOSE k \in 1..Len(text) :
                     /\ text[k] = "\n"
                     /\ \A m \in 1..(k - 1) : text[m] # "\n"
         IN  <<SubSeq(text, 1, i - 1)>> \o Split(SubSeq(text, i + 1, Len(text)))

\* The lines of a text; the empty text has none.
LinesOf(text) == IF text = << >> THEN << >> ELSE Split(text)

\* The process holds the text made of the track of its successful attempt.
Rendered(p) == pc[p] = "save"

\* What entry i of a track is to read as: [timestamp]text.
Bracketed(entry) ==
    <<"[">> \o convert_seconds_to_timestamp(entry.start) \o <<"]">> \o entry.text

\* C16 as stated: the text has exactly one line per entry of the track, and
\* line i is the bracketed timestamp of entry i followed by its text, in the
\* order received, ascending start offsets or not.
C16_OneLinePerEntry ==
    \A p \in Procs :
        Rendered(p) =>
            LET track == LastEvent(p).track
                lines == LinesOf(video_transcript[p])
            IN  /\ Len(lines) = Len(track)
                /\ \A i \in 1..Len(track) : lines[i] = Bracketed(track[i])

\* Where the rendering of entry i begins in the text, less one.
RECURSIVE Offset(_, _)
Offset(track, i) ==
    IF i = 1 THEN 0
    ELSE Offset(track, i - 1) + Len(Bracketed(track[i - 1])) + 1

NoLineBreak(text) == \A k \in 1..Len(text) : text[k] # "\n"

\* C16 amended: the text is made of the entries' renderings, the bracketed
\* timestamp followed by the text, in the order received, ascending start
\* offsets or not, each separated from the next by one line break and nothing
\* else; it has exactly one line per entry when no entry's text holds a line
\* break itself.
C16_EntriesInProviderOrder ==
    \A p \in Procs :
        Rendered(p) =>
            LET track == LastEvent(p).track
                text  == video_transcript[p]
                n     == Len(track)
            IN  /\ Len(text) = IF n = 0 THEN 0
                               ELSE Offset(track, n) + Len(Bracketed(track[n]))
                /\ \A i \in 1..n :
                     /\ SubSeq(text, Offset(track, i) + 1,
                               Offset(track, i) + Len(Bracketed(track[i])))
                          = Bracketed(track[i])
                     /\ i > 1 => text[Offset(track, i)] = "\n"
                /\ (\A i \in 1..n : NoLineBreak(track[i].text)) =>
                     /\ Len(LinesOf(text)) = n
                     /\ \A i \in 1..n : LinesOf(text)[i] = Bracketed(track[i])

\* A track of two entries, the later one first, none with a line break, has
\* been rendered.
C16_Witness ==
    \E p \in Procs :
        /\ Rendered(p)
        /\ Len(LastEvent(p).track) = 2
        /\ LastEvent(p).track[1].start > LastEvent(p).track[2].start
        /\ \A i \in 1..2 : NoLineBreak(LastEvent(p).track[i].text)
        /\ LastEvent(p).track[1].text # LastEvent(p).track[2].text

-----------------------------------------------------------------------------
(* The attempt budget. *)

\* The number of attempts among the first j events of es.
AttemptsUpTo(es, j) == Cardinality({ i \in 1..j : es[i].ev = "attempt" })

\* C17: each language gets at most 7 attempts, numbered from 1 however the
\* previous language ended, and at most 6 sleeps, each after a transient
\* failure of an attempt below the seventh; the seventh transient failure is
\* followed without a sleep by attempt 1 of the next language or by the
\* exhaustion error.
C17_AttemptBudget ==
    \A p \in Procs :
        /\ n_try[p] \in 1..max_retries
        /\ \A l \in {En, Fa} :
             LET es == LangEvents(trace[p], l)
             IN  /\ AttemptsUpTo(es, Len(es)) <= 7
                 /\ Cardinality(SleepsIn(es)) <= 6
                 /\ \A j \in 1..Len(es) :
                      /\ es[j].ev = "attempt" => es[j].n_try = AttemptsUpTo(es, j)
                      /\ es[j].ev = "sleep" =>
                           /\ j > 1
                           /\ es[j - 1].ev = "attempt"
                           /\ es[j - 1].out = "transient"
                           /\ es[j - 1].n_try < 7
        /\ \A i \in Attempts(trace[p]) :
             LET e == trace[p][i]
             IN  e.out = "transient" /\ e.n_try = 7 =>
                   /\ i < Len(trace[p]) =>
                        /\ After(e.language) # << >>
                        /\ trace[p][i + 1].ev = "attempt"
                        /\ trace[p][i + 1].language = After(e.language)
                        /\ trace[p][i + 1].n_try = 1
                   /\ i = Len(trace[p]) =>
                        IF After(e.language) = << >>
                        THEN pc[p] = "done" /\ outcome[p].kind = "ValueError"
                        ELSE /\ pc[p] = "fetch"
                             /\ languages[language[p]] = After(e.language)
                             /\ n_try[p] = 1

\* Seven transient failures and six sleeps of en, then attempt 1 of fa.
C17_Witness ==
    \E p \in Procs :
        /\ AttemptsUpTo(LangEvents(trace[p], En), Len(LangEvents(trace[p], En))) = 7
        /\ Cardinality(SleepsIn(LangEvents(trace[p], En))) = 6
        /\ \A i \in Attempts(trace[p]) :
             trace[p][i].language = En => trace[p][i].out = "transient"
        /\ \E i \in Attempts(trace[p]) :
             trace[p][i].language = Fa /\ trace[p][i].n_try = 1

\* A fetch makes at most 14 attempts and ends in one of two ways: with a text
\* and the language en or fa of the successful attempt, or with the
\* exhaustion error; while it runs nothing has been raised.
C18_Closed ==
    \A p \in Procs :
        /\ Cardinality(Attempts(trace[p])) <= 14
        /\ pc[p] \in {"lookup", "fetch", "sleep", "save"} => outcome[p] = Running
        /\ Attempts(trace[p]) # {} /\ pc[p] \in {"save", "done"} =>
             IF FetchedOk(p)
             THEN /\ transcription_language[p] \in {En, Fa}
                  /\ video_transcript[p] # None
                  /\ outcome[p].kind \in {"running", "returned"}
             ELSE /\ pc[p] = "done"
                  /\ outcome[p].kind = "ValueError"
                  /\ outcome[p].message # ExtractMsg
                  /\ video_transcript[p] = None
                  /\ transcription_language[p] = None

\* C18: when every provider call and every sleep returns, the fetch of an
\* invocation ends, after at most 14 attempts, with the pair (text, language
\* en or fa) or with the exhaustion error; no disabled, not-found or transient
\* error, a failure while normalizing entries included, leaves it.
C18_FetchTerminates == []C18_Closed /\ <>(pc[Main] = "done")

\* Thirteen failed attempts, then the fourteenth succeeds.
C18_Witness ==
    \E p \in Procs :
        /\ pc[p] = "done"
        /\ Cardinality(Attempts(trace[p])) = 14
        /\ outcome[p].kind = "returned"

-----------------------------------------------------------------------------
(* Two processes on one video. *)

Count(b) == IF b THEN 1 ELSE 0

\* The process is in its first run and its lookup found no record.
MissedFirst(p) ==
    /\ prev[p] = NoPrev
    /\ \E i \in Lookups(trace[p]) : trace[p][i].out = "absent"

\* The records in the store are those of the saves that succeeded, one each.
\* When both first lookups found nothing, which is the case when both
\* lookups come before both saves, a process that is done has fetched, and
\* two successful saves leave two records of the video.
C19_Records ==
    /\ Len(store) = Count(prev[Main].saved)
                    + Count(SavedOk("p1")) + Count(SavedOk("p2"))
    /\ \A p \in Procs :
         SavedOk(p) =>
            \E i \in 1..Len(store) :
               /\ store[i].video_id = video_id[p]
               /\ store[i].transcript = video_transcript[p]
               /\ store[i].transcription_language = transcription_language[p]
    /\ (\A p \in Procs : MissedFirst(p)) =>
         /\ \A p \in Procs : pc[p] \in {"fetch", "sleep", "save", "done"}
         /\ \A p \in Procs : pc[p] = "done" => Attempts(trace[p]) # {}
         /\ (\A p \in Procs : SavedOk(p)) =>
              /\ Cardinality(RowsOf(store, <<"a">>)) = 2
              /\ store[1].id # store[2].id

\* C19: two processes acquire the same video without bypass, their steps
\* interleaved in any order: no step removes or changes a record; the store
\* holds one record per successful save; when both lookups come before both
\* saves both processes fetch and two successful saves leave two records of
\* the video; and a lookup returns the text and language of a record of the
\* video that none exceeds in created_at.
C19_ConcurrentAcquire ==
    [][ /\ IsPrefix(store, store')
        /\ C19_Records'
        /\ \A p \in Procs :
             /\ pc[p] = "lookup"
             /\ pc'[p] # "lookup"
             /\ outcome'[p].kind # "DBError"
             => IF HasRow(store, video_id[p])
                THEN IsFreshest(store, video_id[p],
                                <<video_transcript'[p], transcription_language'[p]>>)
                ELSE /\ video_transcript'[p] = None
                     /\ transcription_language'[p] = None ]_vars

\* Both processes missed, fetched different texts and saved; the first
\* process, run again, got the text of the later record from its lookup.
C19_Witness ==
    /\ pc["p1"] = "done"
    /\ pc["p2"] = "done"
    /\ prev["p1"].fetched
    /\ prev["p1"].saved
    /\ MissedFirst("p2")
    /\ SavedOk("p2")
    /\ Len(store) = 2
    /\ store[1].transcript # << >>
    /\ store[2].transcript # << >>
    /\ store[1].transcript # store[2].transcript
    /\ store[1].created_at < store[2].created_at
    /\ Len(trace["p1"]) = 1
    /\ trace["p1"][1].ev = "lookup"
    /\ trace["p1"][1].out = "found"
    /\ video_transcript["p1"] = store[2].transcript

-----------------------------------------------------------------------------
(* Bypass, then read back. *)

\* p is in (or has ended) an invocation without --force-fetch that follows,
\* on the same URL, an invocation with --force-fetch that fetched and saved.
AfterSavedBypass(p) ==
    /\ pc[p] # "idle"
    /\ prev[p].valid
    /\ prev[p].force_fetch
    /\ prev[p].kind = "returned"
    /\ prev[p].fetched
    /\ prev[p].saved
    /\ prev[p].url = args[p].url
    /\ ~args[p].force_fetch

\* C20: an acquire call with bypass never reads the store and always calls
\* the fetch, also when the store holds a record of the id; when fetch and
\* save succeed the store gains exactly one record; and the next call
\* without bypass on the same URL makes no provider call and returns the
\* text and language just fetched.
C20_BypassThenReadBack ==
    \A p \in Procs :
        /\ pc[p] # "idle" /\ args[p].force_fetch /\ video_id[p] # None =>
             /\ Lookups(trace[p]) = {}
             /\ pc[p] = "done" => Attempts(trace[p]) # {}
             /\ SavedOk(p) => Len(store) = Len(store0[p]) + 1
        /\ AfterSavedBypass(p) /\ ~LookupRaised(p) =>
             /\ Attempts(trace[p]) = {}
             /\ ReturnedPair(p) => SamePairAsBefore(p)

=============================================================================
